---- MODULE Spec2Model ----
(***************************************************************************)
(* A model of the text-to-speech server (src/server.js): the text          *)
(* splitter, the in-memory request registry, the streaming pipeline        *)
(* (GET /generate-audio-stream) with its temporary files, and the ffmpeg   *)
(* child process.                                                          *)
(*                                                                         *)
(* Node runs each handler to completion between two awaits, so one action  *)
(* is the code from one suspension point to the next.                      *)
(***************************************************************************)
EXTENDS Integers, Sequences, FiniteSets, TLC

VARIABLES
    chunkSize,   \* const chunkSize (4000 in the source), scaled down
    text,        \* splitter: the text being split
    start,       \* splitter: let start
    chunks,      \* splitter: let chunks
    spc,         \* splitter: "loop" while the while-loop runs, then "done"
    requests,    \* const requests = new Map()
    nextId,      \* how many requestIds were issued
    now,         \* the last value read from Date.now()
    fs,          \* the files of os.tmpdir(): path -> [by, data]
    hs,          \* one record per GET /generate-audio-stream request
    serverUp,    \* FALSE once an uncaught exception ended the process
    submitResp,  \* the last exchange of POST /initiate-audio-generation: the
                 \* response and the request body it answers
    ga,          \* the POST /generate-audio request (no stream)
    client       \* the browser page: its click handler and its EventSource

vars == <<chunkSize, text, start, chunks, spc, requests, nextId, now, fs, hs,
          serverUp, submitResp, ga, client>>

splitVars == <<text, start, chunks, spc>>
pipeVars == <<requests, nextId, now, fs, hs, serverUp, submitResp, ga, client>>

(***************************************************************************)
(* Bounds                                                                  *)
(***************************************************************************)
MaxTextLen == 5      \* SplitSpec: texts of up to this many characters
MaxChunkSize == 3    \* SplitSpec: chunk sizes 1..MaxChunkSize
MaxJobs == 2         \* Spec: accepted submissions
MaxStreams == 2      \* Spec: stream requests
MaxClock == 1        \* Spec: Date.now() takes the values 0..MaxClock
MaxAloneLen == 12    \* SpecAlone: texts of up to this many characters
MaxTitleLen == 2     \* SpecAlone: titles of up to this many characters
MaxDisconnectLen == 4  \* SpecDisconnect: texts of up to this many characters

Min(a, b) == IF a < b THEN a ELSE b

Chars == {"a", "."}
TextsUpTo(n) == UNION {[1..k -> Chars] : k \in 0..n}

(***************************************************************************)
(* JavaScript string helpers, 0-based as in the source                     *)
(***************************************************************************)
\* mutant: the backward search starts one position before from
LastIndexOfBefore(t, from) ==
    LET hits == {j \in 0..Min(from - 1, Len(t) - 1) : t[j + 1] = "."}
    IN  IF hits = {} THEN -1 ELSE CHOOSE j \in hits : \A k \in hits : k <= j

\* text.lastIndexOf('.', from): the largest index <= from holding '.', or -1
LastIndexOf(t, from) ==
    LET hits == {j \in 0..Min(from, Len(t) - 1) : t[j + 1] = "."}
    IN  IF hits = {} THEN -1 ELSE CHOOSE j \in hits : \A k \in hits : k <= j

\* text.slice(from, to) for 0 <= from: the end is clamped to the length
Slice(t, from, to) == SubSeq(t, from + 1, Min(to, Len(t)))

(***************************************************************************)
(* The splitting loop of the stream endpoint                               *)
(***************************************************************************)
\* mutant: any '.' found by the backward search is taken as the cut, also
\* one that lies at or before start
ChunkEndAnyPeriod(t, L, s) ==
    LET end == s + L
        punctuationIndex == LastIndexOf(t, end)
    IN  IF end < Len(t) /\ punctuationIndex # -1
        THEN punctuationIndex + 1
        ELSE end

\* the value of `end` when the chunk is pushed (server.js 97-103)
ChunkEnd(t, L, s) ==
    LET end == s + L
        punctuationIndex == LastIndexOf(t, end)
    IN  IF end < Len(t) /\ punctuationIndex > s
        THEN punctuationIndex + 1
        ELSE end

\* mutant: the legacy for-loop's advance, i = end - 1 followed by i += chunkSize
NextStartLegacy(t, L, s) == ChunkEnd(t, L, s) - 1 + L

\* start = end (server.js 105)
NextStart(t, L, s) == ChunkEnd(t, L, s)

\* chunks.push(text.slice(start, end)) (server.js 104)
ChunkAt(t, L, s) == Slice(t, s, ChunkEnd(t, L, s))

\* the whole while loop, from offset s
RECURSIVE SplitFrom(_, _, _)
SplitFrom(t, L, s) ==
    IF s < Len(t)
    THEN <<ChunkAt(t, L, s)>> \o SplitFrom(t, L, NextStart(t, L, s))
    ELSE <<>>

Split(t, L) == SplitFrom(t, L, 0)

\* the for loop of the legacy POST /generate-audio (src/unnamed/part_003
\* 40-50): the body ends with i = end - 1 and the loop header then adds
\* chunkSize
LegacyNext(t, L, i) == (ChunkEnd(t, L, i) - 1) + L

RECURSIVE SplitLegacyFrom(_, _, _)
SplitLegacyFrom(t, L, i) ==
    IF i < Len(t)
    THEN <<Slice(t, i, ChunkEnd(t, L, i))>> \o SplitLegacyFrom(t, L, LegacyNext(t, L, i))
    ELSE <<>>

SplitLegacy(t, L) == SplitLegacyFrom(t, L, 0)

RECURSIVE Concat(_)
Concat(ss) == IF ss = <<>> THEN <<>> ELSE Head(ss) \o Concat(Tail(ss))

(***************************************************************************)
(* The splitting loop, one iteration per step (SplitSpec)                  *)
(***************************************************************************)
SplitInit ==
    /\ chunkSize \in 1..MaxChunkSize
    /\ text \in TextsUpTo(MaxTextLen)
    /\ start = 0
    /\ chunks = <<>>
    /\ spc = "loop"

\* one pass through the body of while (start < text.length)
SplitIter ==
    /\ spc = "loop"
    /\ start < Len(text)
    /\ chunks' = Append(chunks, ChunkAt(text, chunkSize, start))
    /\ start' = NextStart(text, chunkSize, start)
    /\ UNCHANGED <<chunkSize, text, spc, pipeVars>>

\* the loop condition fails
SplitExit ==
    /\ spc = "loop"
    /\ ~(start < Len(text))
    /\ spc' = "done"
    /\ UNCHANGED <<chunkSize, text, start, chunks, pipeVars>>

(***************************************************************************)
(* Events of the progress stream (res.write / res.end)                     *)
(***************************************************************************)
StatusEvent(m, k, n) ==
    [kind |-> "status", msg |-> m, k |-> k, n |-> n, title |-> <<>>, audio |-> <<>>]
ErrorEvent(m) ==
    [kind |-> "error", msg |-> m, k |-> 0, n |-> 0, title |-> <<>>, audio |-> <<>>]
\* `data: {"title": "${title}", "audioBase64": "${base64Audio}"}\n\n`
\* (server.js 179): title holds the characters that the template puts
\* between the two quotes of the title member, which are the characters of
\* the title as they are
ResultEvent(t, a) ==
    [kind |-> "result", msg |-> "", k |-> 0, n |-> 0, title |-> t, audio |-> a]
\* res.end(): the mark that closes the stream
EndMark ==
    [kind |-> "end", msg |-> "", k |-> 0, n |-> 0, title |-> <<>>, audio |-> <<>>]

\* finalBuffer.toString('base64'): 4 characters per started group of 3 bytes
Base64Length(bytes) == 4 * ((Len(bytes) + 2) \div 3)

(***************************************************************************)
(* The temporary directory                                                 *)
(***************************************************************************)
ChunkPath(i) == <<"chunk", i>>              \* path.join(tmpdir(), `chunk_${i}.mp3`)
FileListPath == <<"filelist", 0>>           \* path.join(tmpdir(), 'filelist.txt')
ConcatenatedPath(t) == <<"concatenated", t>>  \* `concatenated_${Date.now()}.mp3`

\* fs.writeFileSync(p, data), by stream request h
WriteFile(fsx, p, h, data) ==
    [q \in DOMAIN fsx \cup {p} |-> IF q = p THEN [by |-> h, data |-> data] ELSE fsx[q]]

\* fs.unlinkSync(p): throws (ok = FALSE) when the file does not exist
Unlink(fsx, p) ==
    IF p \in DOMAIN fsx
    THEN [ok |-> TRUE, fs |-> [q \in DOMAIN fsx \ {p} |-> fsx[q]]]
    ELSE [ok |-> FALSE, fs |-> fsx]

\* tempFiles.forEach(f => fs.unlinkSync(f)): stops at the first throw
RECURSIVE UnlinkAll(_, _)
UnlinkAll(fsx, paths) ==
    IF paths = <<>> THEN [ok |-> TRUE, fs |-> fsx]
    ELSE LET u == Unlink(fsx, Head(paths))
         IN  IF u.ok THEN UnlinkAll(u.fs, Tail(paths)) ELSE u

\* the audio the provider returns for chunk i of job id: one marker
Audio(id, i) == <<[job |-> id, chunk |-> i]>>

(***************************************************************************)
(* One GET /generate-audio-stream request                                  *)
(***************************************************************************)
NoId == 0                       \* the requestId query parameter is missing
Handlers == 1..MaxStreams
Voices == {"", "nova"}          \* "" is a missing voice
Titles == {<<>>, <<"T">>}       \* a title is a sequence of characters; <<>> is
                                \* a missing or empty title
\* Spec: the request bodies that concurrent clients send: a text of one
\* chunk and a text of two chunks
BodyT == [title |-> <<"T">>, text |-> <<"a">>, voice |-> "", model |-> "tts-1",
          instructions |-> ""]
BodyU == [title |-> <<"U">>, text |-> <<"a", ".", "b">>, voice |-> "nova",
          model |-> "gpt-4o-mini-tts", instructions |-> "calm"]
Bodies == {BodyT, BodyU}
\* Spec: the bodies tried for the k-th accepted submission; the first is any
\* of Bodies, the later ones alternate (this keeps the interleavings of
\* MaxStreams pipelines within reach)
BodiesAt(k) == IF k = 1 THEN Bodies ELSE IF k % 2 = 0 THEN {BodyU} ELSE {BodyT}
AloneTexts == {[j \in 1..k |-> "a"] : k \in 0..MaxAloneLen}
Models == {"", "gpt-4o-mini-tts"}      \* "" is a missing model
Instructions == {"", "calm"}           \* "" is no style instruction
NoBody == [title |-> <<>>, text |-> <<>>, voice |-> "", model |-> "", instructions |-> ""]

\* mutant: the request is rejected only when both fields are missing
InvalidBothMissing(title, txt) == title = <<>> /\ txt = <<>>

\* mutant: only the title is validated
InvalidTitleOnly(title, txt) == title = <<>>

\* if (!title || !text) (server.js 41): a missing field and an empty string
\* are both falsy
Invalid(title, txt) == title = <<>> \/ txt = <<>>

\* the characters of the titles that are tried: a letter, the letter n, a
\* double quote, a backslash and a line break
TitleChars == {"T", "n", "\"", "\\", "\n"}
WireTitles == UNION {[1..k -> TitleChars] : k \in 1..MaxTitleLen}

\* SpecAlone: the request bodies: every valid one with the title T, the
\* invalid ones with at most one character of text and nothing else set,
\* and a one-chunk job under every title of WireTitles
AloneBodies ==
    {b \in [title : Titles, text : AloneTexts, voice : Voices, model : Models,
            instructions : Instructions] :
        Invalid(b.title, b.text)
        => Len(b.text) <= 1 /\ b.voice = "" /\ b.model = "" /\ b.instructions = ""}
    \cup {[title |-> w, text |-> <<"a">>, voice |-> "", model |-> "",
           instructions |-> ""] : w \in WireTitles}

\* JSON.parse in the client (src/index.html 197), on the title member of a
\* result event: w is what stands between the two quotes that the template
\* wrote, k the position read next, acc the string value so far. A quote
\* inside w ends the string early, and what follows it (none of TitleChars
\* is a comma or a brace) is not valid JSON; a backslash starts an escape,
\* and as the last character it escapes the closing quote; a line break is
\* not allowed inside a string (and ends the data line of the event).
RECURSIVE JSONParseTitle(_, _, _)
JSONParseTitle(w, k, acc) ==
    IF k > Len(w) THEN [ok |-> TRUE, value |-> acc]
    ELSE IF w[k] = "\"" \/ w[k] = "\n" THEN [ok |-> FALSE, value |-> acc]
    ELSE IF w[k] = "\\"
         THEN IF k = Len(w) THEN [ok |-> FALSE, value |-> acc]
              ELSE IF w[k + 1] \in {"\"", "\\"}
                   THEN JSONParseTitle(w, k + 2, Append(acc, w[k + 1]))
              ELSE IF w[k + 1] = "n"
                   THEN JSONParseTitle(w, k + 2, Append(acc, "\n"))
              ELSE [ok |-> FALSE, value |-> acc]
    ELSE JSONParseTitle(w, k + 1, Append(acc, w[k]))

ProviderOutcomes == {"ok", "nonOk", "throws"}

IdleHandler ==
    [pc |-> "idle", requestId |-> NoId, claimed |-> FALSE, httpStatus |-> 0,
     title |-> <<>>, text |-> <<>>, voice |-> "", chunks |-> <<>>, i |-> 0,
     tempFiles |-> <<>>, concatenatedPath |-> <<>>, exitCode |-> 0,
     events |-> <<>>,     \* what was written to res, in order, with the end mark
     calls |-> <<>>,      \* the provider calls issued, in order
     spawns |-> 0,        \* how many times ffmpeg was spawned
     inputs |-> <<>>,     \* the segment files ffmpeg read, in manifest order
     closedAt |-> 0]      \* 0 while the client is connected, else the number of
                          \* events written when it disconnected

\* res.write(event)
Write(s, e) == [s EXCEPT !.events = Append(@, e)]

\* res.end()
EndStream(s) == [s EXCEPT !.events = Append(@, EndMark), !.pc = "done"]

\* mutant: the catch block writes the error and leaves the stream open
CatchNoEnd(s) ==
    [Write(s, ErrorEvent("Failed to generate audio.")) EXCEPT !.pc = "done"]

\* mutant: a provider call that failed is repeated once before the catch
\* block gives up
CatchRetryOnce(s) ==
    IF s.pc = "fetch" /\ Cardinality({k \in 1..Len(s.calls) : s.calls[k].chunk = s.i}) = 1
    THEN [s EXCEPT !.calls = Append(s.calls, [s.calls[Len(s.calls)] EXCEPT
                                                !.outcome = "pending"])]
    ELSE EndStream(Write(s, ErrorEvent("Failed to generate audio.")))

\* catch (error) { res.write(error event); res.end(); } (server.js 181-185)
Catch(s) == EndStream(Write(s, ErrorEvent("Failed to generate audio.")))

\* mutant: a response that is not ok is taken for audio
ResponseThrowsUnchecked(outcome) == outcome = "throws"

\* fetch rejects, or if (!response.ok) throw (server.js 115-130)
ResponseThrows(outcome) == outcome \in {"nonOk", "throws"}

\* the decimal digits of n, and the order of file names that a directory
\* listing sorted by name would give
RECURSIVE Digits(_)
Digits(n) == IF n < 10 THEN <<n>> ELSE Append(Digits(n \div 10), n % 10)
RECURSIVE LexLess(_, _)
LexLess(a, b) ==
    IF a = <<>> THEN b # <<>>
    ELSE IF b = <<>> THEN FALSE
    ELSE IF Head(a) # Head(b) THEN Head(a) < Head(b)
    ELSE LexLess(Tail(a), Tail(b))
NameLess(p, q) == LexLess(Digits(p[2]), Digits(q[2]))

\* mutant: the manifest lists the segment files in the order of their names
ListContentByName(tempFiles) ==
    LET n == Len(tempFiles)
        rank(j) == Cardinality({k \in 1..n : NameLess(tempFiles[k], tempFiles[j])})
    IN  [r \in 1..n |-> tempFiles[CHOOSE j \in 1..n : rank(j) = r - 1]]

\* tempFiles.map(file => `file '${file}'`).join('\n') (server.js 142): one
\* entry per segment file, in the order of the array
ListContent(tempFiles) == tempFiles

\* the request sent to the provider for chunk s.i (server.js 115-126); at is
\* the number of events the stream held when the call was issued
IssueCall(s) ==
    [s EXCEPT !.pc = "fetch",
              !.calls = Append(@, [chunk |-> s.i, input |-> s.chunks[s.i + 1],
                                   model |-> "tts-1",
                                   voice |-> IF s.voice = "" THEN "alloy" ELSE s.voice,
                                   outcome |-> "pending",
                                   at |-> Len(s.events)])]

\* step 3 up to the spawn of ffmpeg (server.js 140-155)
ConcatStage(s, fsx, t, h) ==
    LET s1 == Write(s, StatusEvent("Concatenating audio files...", 0, 0))
    IN  [s  |-> [s1 EXCEPT !.concatenatedPath = ConcatenatedPath(t),
                           !.pc = "spawned", !.spawns = @ + 1],
         fs |-> WriteFile(fsx, FileListPath, h, ListContent(s.tempFiles))]

\* mutant: the provider call is issued before the status event is written
LoopHeadCallFirst(s, fsx, t, h) ==
    IF s.i < Len(s.chunks)
    THEN [s  |-> Write(IssueCall(s), StatusEvent("Generating audio for chunk",
                                                 s.i + 1, Len(s.chunks))),
          fs |-> fsx]
    ELSE ConcatStage(s, fsx, t, h)

\* mutant: the loop ends one chunk early
LoopHeadEarlyExit(s, fsx, t, h) ==
    IF s.i + 1 < Len(s.chunks)
    THEN [s  |-> IssueCall(Write(s, StatusEvent("Generating audio for chunk",
                                                s.i + 1, Len(s.chunks)))),
          fs |-> fsx]
    ELSE ConcatStage(s, fsx, t, h)

\* mutant: the status event names the chunk by its 0-based index
LoopHeadZeroBased(s, fsx, t, h) ==
    IF s.i < Len(s.chunks)
    THEN [s  |-> IssueCall(Write(s, StatusEvent("Generating audio for chunk",
                                                s.i, Len(s.chunks)))),
          fs |-> fsx]
    ELSE ConcatStage(s, fsx, t, h)

\* the head of for (let i = 0; i < chunks.length; i++), up to the next await
LoopHead(s, fsx, t, h) ==
    IF s.i < Len(s.chunks)
    THEN [s  |-> IssueCall(Write(s, StatusEvent("Generating audio for chunk",
                                                s.i + 1, Len(s.chunks)))),
          fs |-> fsx]
    ELSE ConcatStage(s, fsx, t, h)

\* mutant: the output file is not removed before the result is written
SucceedKeepsOutput(s, fsx) ==
    IF s.concatenatedPath \notin DOMAIN fsx
    THEN [s |-> Catch(s), fs |-> fsx]
    ELSE LET finalBuffer == fsx[s.concatenatedPath].data
             u1 == UnlinkAll(fsx, s.tempFiles)
             u2 == Unlink(u1.fs, FileListPath)
             s1 == Write(s, StatusEvent("Audio generated successfully.", 0, 0))
         IN  IF ~u1.ok THEN [s |-> Catch(s), fs |-> u1.fs]
             ELSE IF ~u2.ok THEN [s |-> Catch(s), fs |-> u2.fs]
             ELSE [s  |-> EndStream(Write(s1, ResultEvent(s.title, finalBuffer))),
                   fs |-> u2.fs]

\* mutant: the result is written without the closing status event
SucceedResultOnly(s, fsx) ==
    IF s.concatenatedPath \notin DOMAIN fsx
    THEN [s |-> Catch(s), fs |-> fsx]
    ELSE LET finalBuffer == fsx[s.concatenatedPath].data
             u1 == UnlinkAll(fsx, s.tempFiles)
             u2 == Unlink(u1.fs, FileListPath)
             u3 == Unlink(u2.fs, s.concatenatedPath)
         IN  IF ~u1.ok THEN [s |-> Catch(s), fs |-> u1.fs]
             ELSE IF ~u2.ok THEN [s |-> Catch(s), fs |-> u2.fs]
             ELSE IF ~u3.ok THEN [s |-> Catch(s), fs |-> u3.fs]
             ELSE [s  |-> EndStream(Write(s, ResultEvent(s.title, finalBuffer))),
                   fs |-> u3.fs]

\* after the ffmpeg promise resolved (server.js 170-180)
Succeed(s, fsx) ==
    IF s.concatenatedPath \notin DOMAIN fsx
    THEN [s |-> Catch(s), fs |-> fsx]            \* readFileSync throws
    ELSE LET finalBuffer == fsx[s.concatenatedPath].data
             u1 == UnlinkAll(fsx, s.tempFiles)
             u2 == Unlink(u1.fs, FileListPath)
             u3 == Unlink(u2.fs, s.concatenatedPath)
             s1 == Write(s, StatusEvent("Audio generated successfully.", 0, 0))
         IN  IF ~u1.ok THEN [s |-> Catch(s), fs |-> u1.fs]
             ELSE IF ~u2.ok THEN [s |-> Catch(s), fs |-> u2.fs]
             ELSE IF ~u3.ok THEN [s |-> Catch(s), fs |-> u3.fs]
             ELSE [s  |-> EndStream(Write(s1, ResultEvent(s.title, finalBuffer))),
                   fs |-> u3.fs]

\* mutant: the claim empties the whole map
RemoveAll(reqs, id) == <<>>

\* mutant: the job stays in the map after it was read
RemoveNothing(reqs, id) == reqs

\* requests.delete(requestId) (server.js 78)
Remove(reqs, id) == [x \in DOMAIN reqs \ {id} |-> reqs[x]]

(***************************************************************************)
(* Actions of the server                                                   *)
(***************************************************************************)
\* mutant: the new entry replaces the whole map
SetAlone(reqs, id, job) == [x \in {id} |-> job]

\* requests.set(requestId, job) (server.js 48): a Map keeps one value per
\* key, so an entry under the same id is overwritten
Set(reqs, id, job) == [x \in DOMAIN reqs \cup {id} |-> IF x = id THEN job ELSE reqs[x]]

\* POST /initiate-audio-generation (server.js 39-52). id is the requestId
\* generated at line 45, Date.now() followed by a random suffix: Spec and
\* SpecAlone take it to be fresh and number the ids 1, 2, ... in the order
\* of issue; SpecIds draws it freely.
Submit(body, limit, id) ==
    /\ serverUp
    /\ LET title == body.title      \* const { title, text, voice } = req.body
           txt   == body.text
           voice == body.voice
       IN  IF Invalid(title, txt)
           THEN /\ submitResp' = [status |-> 400,
                                  error |-> "Title and text are required.",
                                  requestId |-> NoId, body |-> body]
                /\ UNCHANGED <<requests, nextId>>
           ELSE /\ nextId < limit
                /\ requests' = Set(requests, id,
                                    [title |-> title, text |-> txt, voice |-> voice])
                /\ nextId' = nextId + 1
                /\ submitResp' = [status |-> 200, error |-> "",
                                  requestId |-> id, body |-> body]
    /\ UNCHANGED <<chunkSize, splitVars, now, fs, hs, serverUp, ga, client>>

\* stream requests are numbered in the order in which they arrive
Arrives(h) == hs[h].pc = "idle" /\ \A g \in Handlers : g < h => hs[g].pc # "idle"

\* mutant: a missing requestId is answered like an unknown one
StreamNoIdAsNotFound(h) ==
    /\ serverUp
    /\ Arrives(h)
    /\ hs' = [hs EXCEPT ![h] =
                EndStream(Write([@ EXCEPT !.httpStatus = 404],
                                ErrorEvent("No data found for the given requestId.")))]
    /\ UNCHANGED <<chunkSize, splitVars, requests, nextId, now, fs, serverUp, submitResp, ga, client>>

\* GET /generate-audio-stream without requestId (server.js 62-67)
StreamNoId(h) ==
    /\ serverUp
    /\ Arrives(h)
    /\ hs' = [hs EXCEPT ![h] =
                EndStream(Write([@ EXCEPT !.httpStatus = 400],
                                ErrorEvent("requestId parameter is required.")))]
    /\ UNCHANGED <<chunkSize, splitVars, requests, nextId, now, fs, serverUp, submitResp, ga, client>>

\* mutant: the not-found branch does not return, and the handler goes on to
\* write a second error event
StreamNotFoundFallsThrough(h, q) ==
    /\ serverUp
    /\ Arrives(h)
    /\ q # NoId
    /\ q \notin DOMAIN requests
    /\ hs' = [hs EXCEPT ![h] =
                Catch(Write([@ EXCEPT !.requestId = q, !.httpStatus = 404],
                            ErrorEvent("No data found for the given requestId.")))]
    /\ UNCHANGED <<chunkSize, splitVars, requests, nextId, now, fs, serverUp, submitResp, ga, client>>

\* GET /generate-audio-stream, requests.get(requestId) finds nothing
\* (server.js 70-75)
StreamNotFound(h, q) ==
    /\ serverUp
    /\ Arrives(h)
    /\ q # NoId
    /\ q \notin DOMAIN requests
    /\ hs' = [hs EXCEPT ![h] =
                EndStream(Write([@ EXCEPT !.requestId = q, !.httpStatus = 404],
                                ErrorEvent("No data found for the given requestId.")))]
    /\ UNCHANGED <<chunkSize, splitVars, requests, nextId, now, fs, serverUp, submitResp, ga, client>>

\* GET /generate-audio-stream, the job is claimed; runs to the first await:
\* the whole splitting loop and the first provider call (server.js 70-115)
StreamClaim(h, q, t) ==
    /\ serverUp
    /\ Arrives(h)
    /\ q # NoId
    /\ q \in DOMAIN requests
    /\ LET storedData == requests[q]
           s0 == [hs[h] EXCEPT !.requestId = q, !.claimed = TRUE, !.httpStatus = 200,
                               !.title = storedData.title, !.text = storedData.text,
                               !.voice = storedData.voice,
                               !.chunks = Split(storedData.text, chunkSize)]
           s1 == Write(s0, StatusEvent("Splitting text into chunks...", 0, 0))
           r  == LoopHead(s1, fs, t, h)
       IN  /\ requests' = Remove(requests, q)
           /\ hs' = [hs EXCEPT ![h] = r.s]
           /\ fs' = r.fs
           /\ now' = IF r.s.pc = "spawned" THEN t ELSE now
    /\ UNCHANGED <<chunkSize, splitVars, nextId, serverUp, submitResp, ga, client>>

\* the provider call of chunk i settles (await fetch and await
\* response.arrayBuffer(), between which the handler touches no shared
\* state); on success the segment file is written and the loop runs to the
\* next await (server.js 115-137, 140-155)
FetchResolve(h, outcome, t) ==
    /\ serverUp
    /\ hs[h].pc = "fetch"
    /\ LET s  == hs[h]
           s1 == [s EXCEPT !.calls[Len(s.calls)].outcome = outcome]
       IN  IF ResponseThrows(outcome)
           THEN /\ hs' = [hs EXCEPT ![h] = Catch(s1)]
                /\ fs' = fs
                /\ now' = now
           ELSE LET tempPath == ChunkPath(s.i)
                    fs1 == WriteFile(fs, tempPath, h, Audio(s.requestId, s.i))
                    s2  == [s1 EXCEPT !.tempFiles = Append(@, tempPath), !.i = @ + 1]
                    r   == LoopHead(s2, fs1, t, h)
                IN  /\ hs' = [hs EXCEPT ![h] = r.s]
                    /\ fs' = r.fs
                    /\ now' = IF r.s.pc = "spawned" THEN t ELSE now
    /\ UNCHANGED <<chunkSize, splitVars, requests, nextId, serverUp, submitResp, ga, client>>

\* what ffmpeg -f concat -i filelist.txt -c copy reads: the manifest, then
\* each file it lists; ok = FALSE when one of them does not exist
ToolRead(fsx) ==
    IF FileListPath \notin DOMAIN fsx THEN [ok |-> FALSE, inputs |-> <<>>]
    ELSE LET entries == fsx[FileListPath].data
         IN  IF \E k \in 1..Len(entries) : entries[k] \notin DOMAIN fsx
             THEN [ok |-> FALSE, inputs |-> <<>>]
             ELSE [ok |-> TRUE, inputs |-> [k \in 1..Len(entries) |-> fsx[entries[k]]]]

\* the ffmpeg child runs and exits; it writes the output only on success and
\* refuses to overwrite an existing output (no -y) (server.js 149-155)
FfmpegRun(h, toolFails) ==
    /\ serverUp
    /\ hs[h].pc = "spawned"
    /\ LET s    == hs[h]
           rd   == ToolRead(fs)
           code == IF toolFails \/ ~rd.ok \/ s.concatenatedPath \in DOMAIN fs
                   THEN 1 ELSE 0
           out  == Concat([k \in 1..Len(rd.inputs) |-> rd.inputs[k].data])
       IN  /\ hs' = [hs EXCEPT ![h] = [s EXCEPT !.pc = "exited", !.exitCode = code,
                                                !.inputs = rd.inputs]]
           /\ fs' = IF code = 0 THEN WriteFile(fs, s.concatenatedPath, h, out) ELSE fs
    /\ UNCHANGED <<chunkSize, splitVars, requests, nextId, now, serverUp, submitResp, ga, client>>

\* ffmpeg cannot be started: the child emits 'error', for which no listener
\* is registered, and the uncaught exception ends the process
\* (server.js 149-167)
FfmpegSpawnError(h) ==
    /\ serverUp
    /\ hs[h].pc = "spawned"
    /\ serverUp' = FALSE
    /\ UNCHANGED <<chunkSize, splitVars, requests, nextId, now, fs, hs, submitResp, ga, client>>

\* ffmpegProcess.on('close', code => ...) and the rest of the handler
\* (server.js 161-185)
FfmpegClose(h) ==
    /\ serverUp
    /\ hs[h].pc = "exited"
    /\ LET s == hs[h]
           r == IF s.exitCode = 0 THEN Succeed(s, fs) ELSE [s |-> Catch(s), fs |-> fs]
       IN  /\ hs' = [hs EXCEPT ![h] = r.s]
           /\ fs' = r.fs
    /\ UNCHANGED <<chunkSize, splitVars, requests, nextId, now, serverUp, submitResp, ga, client>>

\* mutant: the handler listens for the client's disconnect and ends the job
DisconnectCancels(h) ==
    /\ serverUp
    /\ hs[h].claimed
    /\ hs[h].pc # "done"
    /\ hs[h].closedAt = 0
    /\ hs' = [hs EXCEPT ![h].closedAt = Len(hs[h].events), ![h].pc = "done"]
    /\ UNCHANGED <<chunkSize, splitVars, requests, nextId, now, fs, serverUp, submitResp, ga, client>>

\* the client of a running stream disconnects: the handler registers no
\* listener for it (no req.on('close') in server.js 61-186), and res.write
\* on the closed connection does not throw, so nothing but the connection
\* changes
Disconnect(h) ==
    /\ serverUp
    /\ hs[h].claimed
    /\ hs[h].pc # "done"
    /\ hs[h].closedAt = 0
    /\ hs' = [hs EXCEPT ![h].closedAt = Len(hs[h].events)]
    /\ UNCHANGED <<chunkSize, splitVars, requests, nextId, now, fs, serverUp, submitResp, ga, client>>

\* the values Date.now() can return at the next read: the clock never runs
\* backwards, and two reads can fall in the same millisecond
ClockReads == now..Min(now + 1, MaxClock)

(***************************************************************************)
(* POST /generate-audio, the endpoint without a stream (server.js 193-267)  *)
(***************************************************************************)
\* the handler before its request arrived. fs holds the files of
\* os.tmpdir() as this run finds and leaves them: the run is compared with
\* a stream run of the same request, each of them alone in the directory
IdleGa ==
    [pc |-> "idle", title |-> <<>>, text |-> <<>>, voice |-> "", chunks |-> <<>>,
     i |-> 0, tempFiles |-> <<>>,
     calls |-> <<>>,       \* the provider calls issued, in order
     execs |-> 0,          \* how many times execSync ran ffmpeg
     exitCode |-> 0,
     manifest |-> <<>>,    \* listContent as written to filelist.txt
     responses |-> <<>>,   \* what was sent with res.status(..).json(..), in order
     fs |-> <<>>]

\* res.status(status).json(body)
GaRespond(g, status, error, message, title, audio) ==
    [g EXCEPT !.pc = "done",
              !.responses = Append(@, [status |-> status, error |-> error,
                                       message |-> message, title |-> title,
                                       audio |-> audio])]

\* mutant: the catch block logs the error and sends nothing
GaCatchSilent(g) == [g EXCEPT !.pc = "done"]

\* the catch block (server.js 263-266)
GaCatch(g) == GaRespond(g, 500, "Failed to generate audio.", "", <<>>, <<>>)

\* the request sent to the provider for chunk g.i (server.js 219-230)
GaIssueCall(g) ==
    [g EXCEPT !.pc = "fetch",
              !.calls = Append(@, [chunk |-> g.i, input |-> g.chunks[g.i + 1],
                                   model |-> "tts-1",
                                   voice |-> IF g.voice = "" THEN "alloy" ELSE g.voice,
                                   outcome |-> "pending"])]

\* the manifest, the synchronous run of ffmpeg, the read of its output, the
\* removal of the files and the answer (server.js 243-262); execSync throws
\* when ffmpeg exits with a code other than 0 or cannot be started
GaConcat(g, t, toolFails) ==
    LET listContent == ListContent(g.tempFiles)
        fs1  == WriteFile(g.fs, FileListPath, 0, listContent)
        concatenatedPath == ConcatenatedPath(t)
        rd   == ToolRead(fs1)
        code == IF toolFails \/ ~rd.ok \/ concatenatedPath \in DOMAIN fs1 THEN 1 ELSE 0
        out  == Concat([k \in 1..Len(rd.inputs) |-> rd.inputs[k].data])
        g1   == [g EXCEPT !.manifest = listContent, !.execs = @ + 1,
                          !.exitCode = code, !.fs = fs1]
        fs2  == WriteFile(fs1, concatenatedPath, 0, out)
        u1   == UnlinkAll(fs2, g.tempFiles)
        u2   == Unlink(u1.fs, FileListPath)
        u3   == Unlink(u2.fs, concatenatedPath)
    IN  IF code # 0 THEN GaCatch(g1)
        ELSE IF ~u1.ok THEN GaCatch([g1 EXCEPT !.fs = u1.fs])
        ELSE IF ~u2.ok THEN GaCatch([g1 EXCEPT !.fs = u2.fs])
        ELSE IF ~u3.ok THEN GaCatch([g1 EXCEPT !.fs = u3.fs])
        ELSE GaRespond([g1 EXCEPT !.fs = u3.fs], 200, "",
                       "Audio generated successfully.", g.title, out)

\* the head of for (let i = 0; i < chunks.length; i++), up to the next await
\* or to the end of the handler (server.js 217, 243-262)
GaLoopHead(g, t, toolFails) ==
    IF g.i < Len(g.chunks) THEN GaIssueCall(g) ELSE GaConcat(g, t, toolFails)

\* POST /generate-audio arrives; runs to the first await: the validation,
\* the whole splitting loop and the first provider call (server.js 193-219)
GenerateAudio(body, t, toolFails) ==
    /\ serverUp
    /\ ga.pc = "idle"
    /\ LET title == body.title      \* const { title, text, voice } = req.body
           txt   == body.text
           voice == body.voice
           g0    == [ga EXCEPT !.title = title, !.text = txt, !.voice = voice]
       IN  IF Invalid(title, txt)
           THEN ga' = GaRespond(g0, 400, "Title and text are required.", "", <<>>, <<>>)
           ELSE ga' = GaLoopHead([g0 EXCEPT !.chunks = Split(txt, chunkSize)],
                                 t, toolFails)
    /\ UNCHANGED <<chunkSize, splitVars, requests, nextId, now, fs, hs, serverUp,
                   submitResp, client>>

\* the provider call of chunk i settles; on success the segment file is
\* written and the handler runs to the next await or to its end
\* (server.js 219-262)
GaFetchResolve(outcome, t, toolFails) ==
    /\ serverUp
    /\ ga.pc = "fetch"
    /\ LET g1 == [ga EXCEPT !.calls[Len(ga.calls)].outcome = outcome]
       IN  IF ResponseThrows(outcome)
           THEN ga' = GaCatch(g1)
           ELSE LET tempPath == ChunkPath(ga.i)
                    fs1 == WriteFile(ga.fs, tempPath, 0, Audio(0, ga.i))
                IN  ga' = GaLoopHead([g1 EXCEPT !.tempFiles = Append(@, tempPath),
                                                !.i = @ + 1, !.fs = fs1],
                                     t, toolFails)
    /\ UNCHANGED <<chunkSize, splitVars, requests, nextId, now, fs, hs, serverUp,
                   submitResp, client>>

(***************************************************************************)
(* The browser page: the Generate button (src/index.html 169-233)           *)
(***************************************************************************)
\* titleInput.value.trim() || 'Untitled'
Untitled == <<"U", "n", "t", "i", "t", "l", "e", "d">>

\* the page before the click
IdleClient ==
    [pc |-> "idle",        \* "posting": await fetch(.../initiate-audio-generation);
                           \* "open": the EventSource is open; "closed": es.close()
                           \* was called; "failed": the catch block ran
     title |-> <<>>, text |-> <<>>,
     requestId |-> NoId,
     opened |-> 0,         \* how many times new EventSource(..) ran
     seen |-> 0,           \* how many events of the stream were dispatched
     log |-> <<>>]         \* one entry per run of es.onmessage or es.onerror

\* JSON.stringify({ title, text, voice, model }) (src/index.html 184)
ClientBody ==
    [title |-> client.title, text |-> client.text, voice |-> "", model |-> "",
     instructions |-> ""]

\* the click, up to await fetch (src/index.html 169-186)
Click(titleInput, txt) ==
    /\ client.pc = "idle"
    /\ client' = [client EXCEPT !.pc = "posting",
                                !.title = IF titleInput = <<>> THEN Untitled
                                          ELSE titleInput,
                                !.text = txt]
    /\ UNCHANGED <<chunkSize, splitVars, requests, nextId, now, fs, hs, serverUp,
                   submitResp, ga>>

\* the server handles the POST that the page sent
ClientPost ==
    /\ client.pc = "posting"
    /\ submitResp.status = 0
    /\ Submit(ClientBody, 1, nextId + 1)

\* await fetch rejects (the server cannot be reached): the catch block
\* (src/index.html 228-231)
InitFails ==
    /\ client.pc = "posting"
    /\ submitResp.status = 0
    /\ client' = [client EXCEPT !.pc = "failed"]
    /\ UNCHANGED <<chunkSize, splitVars, requests, nextId, now, fs, hs, serverUp,
                   submitResp, ga>>

\* the response of the POST arrived (src/index.html 187-195): a status other
\* than 2xx or a missing requestId throws, otherwise the event stream is
\* opened
InitResponse ==
    /\ client.pc = "posting"
    /\ submitResp.status # 0
    /\ LET requestId == submitResp.requestId
       IN  IF submitResp.status # 200 \/ requestId = NoId
           THEN client' = [client EXCEPT !.pc = "failed"]
           ELSE client' = [client EXCEPT !.pc = "open", !.requestId = requestId,
                                         !.opened = @ + 1]
    /\ UNCHANGED <<chunkSize, splitVars, requests, nextId, now, fs, hs, serverUp,
                   submitResp, ga>>

\* the GET that the EventSource sent reaches the server
ClientConnects(t) ==
    /\ client.opened > 0
    /\ StreamClaim(1, client.requestId, t)

\* es.onmessage for the event e (src/index.html 196-223): the entry of the
\* log it leaves. JSON.parse(e.data) throws on a result whose title member
\* is not a JSON string, and then nothing else of the handler runs
OnMessage(e) ==
    LET parsed == IF e.kind = "result" THEN JSONParseTitle(e.title, 1, <<>>).ok
                  ELSE TRUE
    IN  IF ~parsed THEN [kind |-> e.kind, threw |-> TRUE, closed |-> FALSE]
        ELSE IF e.kind = "status"                      \* if (data.status)
             THEN [kind |-> e.kind, threw |-> FALSE, closed |-> FALSE]
        ELSE IF e.kind = "error"                       \* else if (data.error)
             THEN [kind |-> e.kind, threw |-> FALSE, closed |-> TRUE]
        ELSE IF e.kind = "result" /\ e.audio # <<>> /\ e.title # <<>>
             THEN [kind |-> e.kind, threw |-> FALSE, closed |-> TRUE]
        ELSE [kind |-> e.kind, threw |-> FALSE, closed |-> FALSE]

\* the next event of the stream is dispatched to es.onmessage; an
\* EventSource that was closed dispatches nothing
Dispatch ==
    /\ client.pc = "open"
    /\ client.seen < Len(hs[1].events)
    /\ hs[1].events[client.seen + 1].kind # "end"
    /\ LET entry == OnMessage(hs[1].events[client.seen + 1])
       IN  client' = [client EXCEPT !.seen = @ + 1,
                                    !.log = Append(@, entry),
                                    !.pc = IF entry.closed THEN "closed" ELSE "open"]
    /\ UNCHANGED <<chunkSize, splitVars, requests, nextId, now, fs, hs, serverUp,
                   submitResp, ga>>

\* es.onerror (src/index.html 224-228): the connection broke, or the server
\* ended the response and every event before the end was dispatched
OnError ==
    /\ client.pc = "open"
    /\ client.seen < Len(hs[1].events) => hs[1].events[client.seen + 1].kind = "end"
    /\ client' = [client EXCEPT !.pc = "closed",
                                !.log = Append(@, [kind |-> "transport",
                                                   threw |-> FALSE, closed |-> TRUE])]
    /\ UNCHANGED <<chunkSize, splitVars, requests, nextId, now, fs, hs, serverUp,
                   submitResp, ga>>

(***************************************************************************)
(* Specifications                                                          *)
(***************************************************************************)
PipeChunkSize == 2   \* Spec: the scaled chunk size

PipeInit ==
    /\ requests = <<>>
    /\ nextId = 0
    /\ now = 0
    /\ fs = <<>>
    /\ hs = [h \in Handlers |-> IdleHandler]
    /\ serverUp = TRUE
    /\ submitResp = [status |-> 0, error |-> "", requestId |-> NoId, body |-> NoBody]
    /\ ga = IdleGa
    /\ client = IdleClient

SplitIdle ==
    /\ text = <<>>
    /\ start = 0
    /\ chunks = <<>>
    /\ spc = "done"

\* the server with MaxStreams stream requests and MaxJobs submissions
Init == chunkSize = PipeChunkSize /\ SplitIdle /\ PipeInit

Next ==
    \/ \E b \in BodiesAt(nextId + 1) : Submit(b, MaxJobs, nextId + 1)
    \/ \E h \in Handlers : StreamNoId(h)
    \/ \E h \in Handlers, q \in 1..MaxJobs : StreamNotFound(h, q)
    \/ \E h \in Handlers, q \in 1..MaxJobs, t \in ClockReads : StreamClaim(h, q, t)
    \/ \E h \in Handlers, outcome \in ProviderOutcomes, t \in ClockReads :
          FetchResolve(h, outcome, t)
    \/ \E h \in Handlers, toolFails \in BOOLEAN : FfmpegRun(h, toolFails)
    \/ \E h \in Handlers : FfmpegSpawnError(h)
    \/ \E h \in Handlers : FfmpegClose(h)

Spec == Init /\ [][Next]_vars

\* one job running alone: one submission, one stream request, chunk size 1
AloneInit == chunkSize = 1 /\ SplitIdle /\ PipeInit

AloneNext ==
    \/ \E b \in AloneBodies : Submit(b, 1, nextId + 1)
    \/ StreamNotFound(1, 1)
    \/ \E t \in ClockReads : StreamClaim(1, 1, t)
    \/ \E outcome \in ProviderOutcomes, t \in ClockReads : FetchResolve(1, outcome, t)
    \/ \E toolFails \in BOOLEAN : FfmpegRun(1, toolFails)
    \/ FfmpegSpawnError(1)
    \/ FfmpegClose(1)

SpecAlone == AloneInit /\ [][AloneNext]_vars

\* the registry when the generated requestId can be any of MaxJobs values,
\* an id in use included (same millisecond, same random suffix); one stream
\* request
IdsNext ==
    \/ \E b \in BodiesAt(nextId + 1), id \in 1..MaxJobs : Submit(b, MaxJobs, id)
    \/ \E q \in 1..MaxJobs : StreamNotFound(1, q)
    \/ \E q \in 1..MaxJobs, t \in ClockReads : StreamClaim(1, q, t)
    \/ \E outcome \in ProviderOutcomes, t \in ClockReads : FetchResolve(1, outcome, t)
    \/ \E toolFails \in BOOLEAN : FfmpegRun(1, toolFails)
    \/ FfmpegClose(1)

SpecIds == Init /\ [][IdsNext]_vars

\* one job, of 1 to MaxDisconnectLen chunks, whose client can disconnect at
\* any point of the stream
DisconnectBodies ==
    {[title |-> <<"T">>, text |-> x, voice |-> "", model |-> "", instructions |-> ""] :
        x \in {y \in AloneTexts : Len(y) \in 1..MaxDisconnectLen}}

DisconnectNext ==
    \/ \E b \in DisconnectBodies : Submit(b, 1, nextId + 1)
    \/ \E t \in ClockReads : StreamClaim(1, 1, t)
    \/ Disconnect(1)
    \/ \E outcome \in ProviderOutcomes, t \in ClockReads : FetchResolve(1, outcome, t)
    \/ \E toolFails \in BOOLEAN : FfmpegRun(1, toolFails)
    \/ FfmpegClose(1)

SpecDisconnect == AloneInit /\ [][DisconnectNext]_vars

\* the splitting loop on every text and chunk size within the bounds
SplitSpecInit == SplitInit /\ PipeInit

SplitNext == SplitIter \/ SplitExit

SplitSpec == SplitSpecInit /\ [][SplitNext]_vars

\* the loop is synchronous code: once entered it keeps running
SplitSpecFair == SplitSpec /\ WF_vars(SplitNext)

\* the same request sent to both endpoints, each run alone: the stream
\* endpoint after a Submit, and POST /generate-audio with the body that was
\* submitted; texts up to MaxBothLen characters, chunk size PipeChunkSize
MaxBothLen == 3

BothBodies ==
    [title : Titles, text : TextsUpTo(MaxBothLen), voice : Voices, model : {""},
     instructions : {""}]

BothInit == chunkSize = PipeChunkSize /\ SplitIdle /\ PipeInit

BothNext ==
    \/ \E b \in BothBodies : submitResp.status = 0 /\ Submit(b, 1, nextId + 1)
    \/ \E t \in ClockReads : StreamClaim(1, 1, t)
    \/ \E outcome \in ProviderOutcomes, t \in ClockReads : FetchResolve(1, outcome, t)
    \/ \E toolFails \in BOOLEAN : FfmpegRun(1, toolFails)
    \/ FfmpegSpawnError(1)
    \/ FfmpegClose(1)
    \/ \E t \in ClockReads, toolFails \in BOOLEAN :
          submitResp.status # 0 /\ GenerateAudio(submitResp.body, t, toolFails)
    \/ \E outcome \in ProviderOutcomes, t \in ClockReads, toolFails \in BOOLEAN :
          GaFetchResolve(outcome, t, toolFails)

SpecBoth == BothInit /\ [][BothNext]_vars

\* one click on Generate and the job it starts; texts of up to
\* MaxClientLen characters, chunk size 1
MaxClientLen == 2

ClientTitleInputs == {<<>>} \cup WireTitles
ClientTexts == {x \in AloneTexts : Len(x) <= MaxClientLen}

ClientNext ==
    \/ \E titleInput \in ClientTitleInputs, txt \in ClientTexts : Click(titleInput, txt)
    \/ ClientPost
    \/ InitFails
    \/ InitResponse
    \/ \E t \in ClockReads : ClientConnects(t)
    \/ \E outcome \in ProviderOutcomes, t \in ClockReads : FetchResolve(1, outcome, t)
    \/ \E toolFails \in BOOLEAN : FfmpegRun(1, toolFails)
    \/ FfmpegClose(1)
    \/ Dispatch
    \/ OnError

SpecClient == AloneInit /\ [][ClientNext]_vars

(***************************************************************************)
(* Properties                                                              *)
(***************************************************************************)
\* the positions of the events of the given kinds in a stream
Positions(ev, kinds) == {k \in 1..Len(ev) : ev[k].kind \in kinds}

\* the segments of all chunks of job id, in chunk order
OwnAudio(id, n) == Concat([k \in 1..n |-> Audio(id, k - 1)])

\* the steps a claimed stream request can still take
HandlerStep(h) ==
    \/ \E outcome \in ProviderOutcomes, t \in ClockReads : FetchResolve(h, outcome, t)
    \/ \E toolFails \in BOOLEAN : FfmpegRun(h, toolFails)
    \/ FfmpegClose(h)

\* C1 (SplitSpec): when the splitting loop has ended, the chunks concatenated
\* in index order are the text itself.
C1_ChunksReconstructText ==
    spc = "done" => Concat(chunks) = text

\* C1 witness: a text was split into several chunks, one of them cut after
\* a '.' before the hard boundary.
C1_Witness ==
    /\ spc = "done"
    /\ Len(chunks) >= 2
    /\ \E k \in 1..Len(chunks) - 1 :
          Len(chunks[k]) < chunkSize /\ chunks[k][Len(chunks[k])] = "."

\* C2 (SplitSpec), the claim as stated: no chunk is longer than the chunk size.
C2_ChunkLengthAtMostL ==
    \A k \in 1..Len(chunks) : Len(chunks[k]) <= chunkSize

\* C3 (Spec): of the stream requests that carry one requestId at most one
\* claims the job; every other one got the not-found error event and the end
\* of its stream, and neither called the provider nor spawned ffmpeg.
C3_AtMostOneClaim ==
    \A g \in Handlers : \A h \in Handlers :
        (g # h /\ hs[g].claimed /\ hs[h].requestId = hs[g].requestId)
        => /\ ~hs[h].claimed
           /\ hs[h].events = <<ErrorEvent("No data found for the given requestId."),
                               EndMark>>
           /\ hs[h].calls = <<>>
           /\ hs[h].spawns = 0

\* C3 witness: a second stream request arrived with the requestId of a job
\* that an earlier request had claimed.
C3_Witness ==
    \E g \in Handlers : \E h \in Handlers :
        /\ g < h
        /\ hs[g].claimed
        /\ hs[h].pc = "done"
        /\ hs[h].requestId = hs[g].requestId

\* C4 (Spec): the stream of a claimed job holds at most one terminal event
\* (error or result); the terminal event is followed at once by the end of
\* the stream and by nothing else; and a stream that has ended holds exactly
\* one terminal event.
C4_OneTerminalEventThenClose ==
    \A h \in Handlers :
        hs[h].claimed =>
            LET ev   == hs[h].events
                term == Positions(ev, {"error", "result"})
                ends == Positions(ev, {"end"})
            IN  /\ Cardinality(term) <= 1
                /\ \A k \in term : k = Len(ev) - 1 /\ ev[Len(ev)] = EndMark
                /\ ends \subseteq {Len(ev)}
                /\ ends # {} => Cardinality(term) = 1
                /\ hs[h].pc = "done" <=> ends # {}

\* C4 witness: one claimed job ended with a result and another with an error.
C4_Witness ==
    \E g \in Handlers : \E h \in Handlers :
        /\ hs[g].claimed /\ hs[h].claimed
        /\ Positions(hs[g].events, {"result"}) # {}
        /\ Positions(hs[h].events, {"error"}) # {}

\* C5 (Spec), the claim as stated: a claimed job that has not yet written
\* its terminal event and closed its stream can still take a step towards
\* it, whatever its collaborators did.
C5_ClaimedJobReachesTerminalEvent ==
    \A h \in Handlers :
        (hs[h].claimed /\ hs[h].pc # "done") => ENABLED HandlerStep(h)

\* C6 (SpecAlone): for a job running alone whose provider calls all succeeded
\* and whose ffmpeg run exited with 0, the k-th file ffmpeg read is the
\* segment synthesized from the k-th chunk, and the result's audio is the
\* provider outputs in chunk order.
C6_ManifestInChunkOrder ==
    LET s == hs[1]
        n == Len(s.chunks)
    IN  (s.pc \in {"exited", "done"} /\ s.spawns = 1 /\ s.exitCode = 0)
        => /\ Len(s.inputs) = n
           /\ Len(s.calls) = n
           /\ \A k \in 1..n :
                 /\ s.calls[k].chunk = k - 1
                 /\ s.calls[k].input = s.chunks[k]
                 /\ s.inputs[k].data = Audio(s.requestId, k - 1)
           /\ \A j \in Positions(s.events, {"result"}) :
                 s.events[j].audio = OwnAudio(s.requestId, n)

\* C6 witness: a job of at least 11 chunks delivered its result.
C6_Witness ==
    /\ Len(hs[1].chunks) >= 11
    /\ Positions(hs[1].events, {"result"}) # {}

\* C7 (Spec), the claim as stated: the audio of every result is the in-order
\* concatenation of the segments synthesized for that job.
C7_ResultFromOwnSegments ==
    \A h \in Handlers :
        \A j \in Positions(hs[h].events, {"result"}) :
            hs[h].events[j].audio = OwnAudio(hs[h].requestId, Len(hs[h].chunks))

\* C8 (Spec), the claim as stated: a job whose provider calls all succeeded
\* and whose ffmpeg run exited with 0 ends with a result that carries its
\* title and a non-empty base64 string.
C8_SuccessGivesResult ==
    \A h \in Handlers :
        LET s == hs[h]
        IN  (/\ s.pc = "done"
             /\ s.claimed
             /\ Len(s.calls) = Len(s.chunks)
             /\ \A k \in 1..Len(s.calls) : s.calls[k].outcome = "ok"
             /\ s.spawns = 1
             /\ s.exitCode = 0)
            => \E j \in Positions(s.events, {"result"}) :
                  /\ s.events[j].title = s.title
                  /\ Base64Length(s.events[j].audio) > 0

\* C9 (SpecAlone), the claim as stated: once the stream of a claimed job
\* has ended, no file that the job wrote to the temporary directory exists.
C9_NoArtifactAfterClose ==
    \A h \in Handlers :
        (hs[h].claimed /\ hs[h].pc = "done")
        => \A p \in DOMAIN fs : fs[p].by # h

\* C10 (Spec): after a failed provider call of a job no further provider
\* call is made for it, ffmpeg is not spawned for it, its stream holds no
\* result and exactly one error event.
C10_ProviderFailureAborts ==
    \A h \in Handlers :
        \A k \in 1..Len(hs[h].calls) :
            hs[h].calls[k].outcome \in {"nonOk", "throws"}
            => /\ k = Len(hs[h].calls)
               /\ hs[h].spawns = 0
               /\ Positions(hs[h].events, {"result"}) = {}
               /\ Cardinality(Positions(hs[h].events, {"error"})) = 1
               /\ hs[h].pc = "done"

\* C10 witness: the provider call of the first of two chunks failed.
C10_Witness ==
    \E h \in Handlers :
        /\ Len(hs[h].chunks) = 2
        /\ hs[h].calls[1].outcome = "nonOk"

\* a collaborator of the job of stream request a failed: a provider call
\* that failed, an ffmpeg run that exited with a non-zero code, or an ffmpeg
\* that could not be started (the process is down with the job at the spawn)
CollaboratorFailed(a) ==
    \/ \E k \in 1..Len(hs[a].calls) : hs[a].calls[k].outcome \in {"nonOk", "throws"}
    \/ hs[a].pc \in {"exited", "done"} /\ hs[a].spawns = 1 /\ hs[a].exitCode # 0
    \/ hs[a].pc = "spawned" /\ ~serverUp

\* C11 (Spec), the claim as stated: a collaborator failure inside one job
\* never ends the server process, and every other claimed job that has not
\* ended can still take its next step.
C11_FailureStaysInsideJob ==
    \A a \in Handlers :
        CollaboratorFailed(a)
        => /\ serverUp
           /\ \A b \in Handlers \ {a} :
                 (hs[b].claimed /\ hs[b].pc # "done") => ENABLED HandlerStep(b)

\* C12 (Spec): within one job only the last provider call issued can be
\* pending; the call for chunk k was issued only after the calls for all
\* earlier chunks had succeeded and their segment files had been written;
\* and the last event written before the call for chunk k (1-based) of N was
\* issued is the status event naming chunk k of N.
C12_OneCallInFlight ==
    \A h \in Handlers :
        LET s == hs[h]
            n == Len(s.chunks)
        IN  /\ Len(s.calls) <= n
            /\ (s.pc = "fetch") <=> (\E k \in 1..Len(s.calls) : s.calls[k].outcome = "pending")
            /\ \A k \in 1..Len(s.calls) :
                  /\ s.calls[k].chunk = k - 1
                  /\ s.calls[k].outcome = "pending" => k = Len(s.calls)
                  /\ k < Len(s.calls) =>
                        /\ s.calls[k].outcome = "ok"
                        /\ Len(s.tempFiles) >= k
                        /\ s.tempFiles[k] = ChunkPath(k - 1)
                  /\ s.calls[k].at >= 1
                  /\ s.events[s.calls[k].at] =
                        StatusEvent("Generating audio for chunk", k, n)
                  /\ \A j \in 1..s.calls[k].at - 1 :
                        s.events[j] # StatusEvent("Generating audio for chunk", k, n)

\* C12 witness: the call for the second chunk of a job is in flight.
C12_Witness ==
    \E h \in Handlers :
        /\ hs[h].pc = "fetch"
        /\ Len(hs[h].calls) = 2
        /\ hs[h].calls[2].outcome = "pending"

\* C13 (Spec): ffmpeg is spawned at most once per job; when it has been
\* spawned, one provider call per chunk had been issued, all of them had
\* succeeded and each segment file had been written; and no provider call of
\* the job is pending while ffmpeg is running or has run.
C13_ToolOnceAfterAllChunks ==
    \A h \in Handlers :
        LET s == hs[h]
            n == Len(s.chunks)
        IN  /\ s.spawns <= 1
            /\ (s.spawns = 1) <=> (s.pc \in {"spawned", "exited"}
                                   \/ s.concatenatedPath # <<>>)
            /\ s.spawns = 1 =>
                  /\ n >= 1
                  /\ Len(s.calls) = n
                  /\ \A k \in 1..n : s.calls[k].outcome = "ok"
                  /\ s.tempFiles = [k \in 1..n |-> ChunkPath(k - 1)]
                  /\ s.i = n

\* C13 witness: ffmpeg was spawned for a job of two chunks.
C13_Witness ==
    \E h \in Handlers : hs[h].spawns = 1 /\ Len(hs[h].chunks) = 2

\* the events of a job of n chunks on the way to its result, in order
RECURSIVE GeneratingPath(_, _)
GeneratingPath(k, n) ==
    IF k = 0 THEN <<>>
    ELSE Append(GeneratingPath(k - 1, n),
                StatusEvent("Generating audio for chunk", k, n))
ProgressPath(n) ==
    <<StatusEvent("Splitting text into chunks...", 0, 0)>>
    \o GeneratingPath(n, n)
    \o <<StatusEvent("Concatenating audio files...", 0, 0)>>

\* C14 (Spec): the status events of a claimed job are a prefix of the path
\* Splitting, Generating 1 of N, ..., Generating N of N, Concatenating, with
\* N the number of its chunks; a result is written only after the whole
\* path (and the closing status); an error can follow any prefix of it; and
\* nothing but the end of the stream follows a result or an error.
C14_SinglePath ==
    \A h \in Handlers :
        hs[h].claimed =>
            LET s    == hs[h]
                ev   == s.events
                path == ProgressPath(Len(s.chunks))
                prog == {k \in 1..Len(ev) :
                            /\ ev[k].kind = "status"
                            /\ ev[k].msg # "Audio generated successfully."}
                np   == Cardinality(prog)
            IN  /\ prog = 1..np
                /\ np <= Len(path)
                /\ \A k \in prog : ev[k] = path[k]
                /\ \A k \in Positions(ev, {"result"}) :
                      /\ np = Len(path)
                      /\ k = np + 2
                      /\ ev[np + 1] = StatusEvent("Audio generated successfully.", 0, 0)
                /\ \A k \in Positions(ev, {"error"}) : k = np + 1
                /\ \A k \in Positions(ev, {"end"}) :
                      k = Len(ev) /\ ev[k - 1].kind \in {"result", "error"}
                /\ \A k \in 1..Len(ev) :
                      (ev[k].kind = "status" /\ k \notin prog)
                      => k = np + 1 /\ np = Len(path)

\* C14 witness: one job of two chunks went the whole path to its result,
\* and another job failed while its second chunk was synthesized.
C14_Witness ==
    \E g \in Handlers : \E h \in Handlers :
        /\ Len(hs[g].chunks) = 2
        /\ Positions(hs[g].events, {"result"}) # {}
        /\ Len(hs[h].chunks) = 2
        /\ Len(hs[h].events) = 5
        /\ hs[h].events[4].kind = "error"

\* the progress state of a job as a rank on the path Created (0), Chunking
\* (1), Synthesizing k of N (1 + k), Assembling (N + 2), Done (N + 3); a job
\* that wrote an error is Failed
JobFailed(s) == Positions(s.events, {"error"}) # {}
JobDone(s) == Positions(s.events, {"result"}) # {}
JobRank(s) ==
    IF s.pc = "idle" THEN 0
    ELSE IF s.pc = "fetch" THEN 2 + s.i
    ELSE IF s.pc \in {"spawned", "exited"} THEN Len(s.chunks) + 2
    ELSE Len(s.chunks) + 3

\* the number of state transitions a job makes in a step from s to s2
Transitions(s, s2) ==
    IF JobFailed(s2) THEN (IF JobFailed(s) THEN 0 ELSE 1)
    ELSE JobRank(s2) - JobRank(s)

\* the events written to the stream in a step from s to s2
Written(s, s2) ==
    LET ev == SubSeq(s2.events, Len(s.events) + 1, Len(s2.events))
    IN  IF ev # <<>> /\ ev[Len(ev)] = EndMark THEN SubSeq(ev, 1, Len(ev) - 1) ELSE ev

\* C15 (Spec), the claim as stated: every step of a claimed job writes as
\* many events as it makes state transitions; the step into Done writes the
\* result alone and the step into Failed writes the error alone.
C15_OneEventPerTransition ==
    [][\A h \in Handlers :
          hs'[h].claimed =>
             LET w == Written(hs[h], hs'[h])
             IN  /\ Len(w) = Transitions(hs[h], hs'[h])
                 /\ (JobDone(hs'[h]) /\ ~JobDone(hs[h]))
                    => Len(w) = 1 /\ w[1].kind = "result"
                 /\ (JobFailed(hs'[h]) /\ ~JobFailed(hs[h]))
                    => w = <<ErrorEvent("Failed to generate audio.")>>
      ]_vars

\* C15 (Spec), amended: the step into Done writes two events, the status
\* "Audio generated successfully." and then the result; every other step of
\* a claimed job writes one event per state transition, and the step into
\* Failed writes the error alone. Every terminal step then ends the stream.
C15_OneEventPerTransitionButDone ==
    [][\A h \in Handlers :
          hs'[h].claimed =>
             LET w == Written(hs[h], hs'[h])
             IN  /\ IF JobDone(hs'[h]) /\ ~JobDone(hs[h])
                    THEN /\ Transitions(hs[h], hs'[h]) = 1
                         /\ Len(w) = 2
                         /\ w[1] = StatusEvent("Audio generated successfully.", 0, 0)
                         /\ w[2].kind = "result"
                    ELSE Len(w) = Transitions(hs[h], hs'[h])
                 /\ (JobFailed(hs'[h]) /\ ~JobFailed(hs[h]))
                    => w = <<ErrorEvent("Failed to generate audio.")>>
      ]_vars

\* C15 witness: a job of one chunk is Done with four events and the end of
\* the stream, and another job is Failed.
C15_Witness ==
    \E g \in Handlers : \E h \in Handlers :
        /\ JobDone(hs[g]) /\ Len(hs[g].chunks) = 1 /\ Len(hs[g].events) = 6
        /\ JobFailed(hs[h]) /\ hs[h].claimed

\* C16 (SpecAlone): a submission whose title or text is missing or empty is
\* answered with status 400 and the body {error: "Title and text are
\* required."}, carries no requestId, and leaves the registry and the count
\* of issued ids as they were.
C16_InvalidSubmitRejected ==
    [][(/\ submitResp' # submitResp
        /\ submitResp'.body.title = <<>> \/ submitResp'.body.text = <<>>)
       => /\ submitResp'.status = 400
          /\ submitResp'.error = "Title and text are required."
          /\ submitResp'.requestId = NoId
          /\ requests' = requests
          /\ nextId' = nextId
          /\ hs' = hs
      ]_vars

\* C16 witness: a submission with a title and an empty text was rejected
\* while an accepted job was waiting in the registry.
C16_Witness ==
    /\ submitResp.status = 400
    /\ submitResp.body.title = <<"T">>
    /\ submitResp.body.text = <<>>
    /\ 1 \in DOMAIN requests

\* C17 (Spec): a stream request whose requestId is not in the registry
\* (unknown, or consumed by an earlier request) writes exactly one event, the
\* error "No data found for the given requestId.", and ends the stream; it
\* issues no provider call, spawns no ffmpeg, touches no file and leaves the
\* registry unchanged.
C17_UnknownIdRejected ==
    [][\A h \in Handlers :
          (/\ hs[h].pc = "idle"
           /\ hs'[h].pc # "idle"
           /\ hs'[h].requestId # NoId
           /\ hs'[h].requestId \notin DOMAIN requests)
          => /\ ~hs'[h].claimed
             /\ hs'[h].events =
                   <<ErrorEvent("No data found for the given requestId."), EndMark>>
             /\ hs'[h].pc = "done"
             /\ hs'[h].calls = <<>>
             /\ hs'[h].spawns = 0
             /\ requests' = requests
             /\ fs' = fs
      ]_vars

\* C17 witness: a stream request named a consumed requestId while another
\* job was waiting in the registry.
C17_Witness ==
    \E g \in Handlers : \E h \in Handlers :
        /\ hs[g].claimed
        /\ ~hs[h].claimed
        /\ hs[h].pc = "done"
        /\ hs[h].requestId = hs[g].requestId
        /\ requests # <<>>

\* C18 (Spec), the claim as stated: a stream request without a requestId
\* gets the same event as one with an unknown requestId, the error "No data
\* found for the given requestId.", and then the end of the stream.
C18_NoIdSameAsUnknown ==
    \A h \in Handlers :
        (hs[h].pc = "done" /\ ~hs[h].claimed /\ hs[h].requestId = NoId)
        => hs[h].events =
              <<ErrorEvent("No data found for the given requestId."), EndMark>>

\* C18 (Spec), amended: a stream request without a requestId is answered
\* with status 400 and exactly one event, the error "requestId parameter is
\* required.", and then the end of the stream; it claims no job and calls
\* neither the provider nor ffmpeg.
C18_NoIdOwnError ==
    \A h \in Handlers :
        (hs[h].pc # "idle" /\ hs[h].requestId = NoId)
        => /\ hs[h].httpStatus = 400
           /\ hs[h].events =
                 <<ErrorEvent("requestId parameter is required."), EndMark>>
           /\ hs[h].pc = "done"
           /\ ~hs[h].claimed
           /\ hs[h].calls = <<>>
           /\ hs[h].spawns = 0

\* C18 witness: one stream request came without a requestId and another
\* with an unknown one.
C18_Witness ==
    \E g \in Handlers : \E h \in Handlers :
        /\ hs[g].pc = "done" /\ hs[g].requestId = NoId
        /\ hs[h].pc = "done" /\ hs[h].requestId # NoId /\ ~hs[h].claimed

\* the model and the style instructions of the job a stream request holds;
\* "" when the job has no such field
JobModel(s) == IF "model" \in DOMAIN s THEN s.model ELSE ""
JobInstructions(s) == IF "instructions" \in DOMAIN s THEN s.instructions ELSE ""

\* C19 (SpecAlone), the claim as stated: the stream request that claims the
\* id returned by the last accepted submission holds the submitted job with
\* every field as the client sent it: title, text, voice, model and style
\* instructions; and its provider calls name the submitted model.
C19_JobReachesPipelineIntact ==
    \A h \in Handlers :
        (/\ hs[h].claimed
         /\ submitResp.status = 200
         /\ hs[h].requestId = submitResp.requestId)
        => LET b == submitResp.body
           IN  /\ hs[h].title = b.title
               /\ hs[h].text = b.text
               /\ hs[h].voice = b.voice
               /\ JobModel(hs[h]) = b.model
               /\ JobInstructions(hs[h]) = b.instructions
               /\ \A k \in 1..Len(hs[h].calls) :
                     b.model # "" => hs[h].calls[k].model = b.model

\* C20 (SpecAlone), the claim as stated: every event written to a stream is
\* of exactly one of the three shapes status, error, result; and the title
\* member of every result parses as a JSON string whose value is the title
\* that was submitted, whatever characters the title holds.
C20_EventsAreWellFormedJSON ==
    \A h \in Handlers :
        \A j \in 1..Len(hs[h].events) :
            LET e == hs[h].events[j]
            IN  /\ e.kind \in {"status", "error", "result", "end"}
                /\ e.kind = "end" => j = Len(hs[h].events)
                /\ e.kind = "result" =>
                      LET p == JSONParseTitle(e.title, 1, <<>>)
                      IN  p.ok /\ p.value = hs[h].title

\* C21 (SplitSpecFair), the claim as stated: every iteration of the loop
\* moves start forward and pushes a non-empty chunk, and the loop ends with
\* start equal to the length of the text.
C21_LoopEndsAtTextLength ==
    /\ [][SplitIter => /\ start' > start
                       /\ Len(chunks'[Len(chunks')]) >= 1]_vars
    /\ [](spc = "done" => start = Len(text))
    /\ <>(spc = "done")

\* C21 (SplitSpecFair), amended: every iteration of the loop moves start
\* forward and pushes a non-empty chunk, and the loop ends, with start at
\* least the length of the text and less than the length plus the chunk
\* size (the last candidate end start + chunkSize is not clamped).
C21_LoopTerminates ==
    /\ [][SplitIter => /\ start' > start
                       /\ Len(chunks'[Len(chunks')]) >= 1]_vars
    /\ [](spc = "done" => /\ start >= Len(text)
                          /\ start < Len(text) + chunkSize
                          /\ \A k \in 1..Len(chunks) : Len(chunks[k]) >= 1)
    /\ <>(spc = "done")

\* C21 witness: a text without any '.' was split into several chunks and
\* the loop ended with start beyond the end of the text.
C21_Witness ==
    /\ spc = "done"
    /\ Len(chunks) >= 2
    /\ \A k \in 1..Len(text) : text[k] # "."
    /\ start > Len(text)

\* the 0-based indexes of the '.' of the text strictly after start and not
\* after the candidate end start + chunkSize
PeriodsInReach == {j \in start + 1..start + chunkSize : j < Len(text) /\ text[j + 1] = "."}

\* C22 (SplitSpec): in an iteration whose candidate end start + chunkSize
\* lies before the end of the text, the chunk ends immediately after the
\* last '.' that lies strictly after start and not after the candidate end;
\* when there is none the chunk is cut at the candidate end and is exactly
\* chunkSize long.
C22_CutAfterLastPeriod ==
    [][(SplitIter /\ start + chunkSize < Len(text)) =>
          LET chunk == chunks'[Len(chunks')]
          IN  /\ chunk = SubSeq(text, start + 1, start')
              /\ IF PeriodsInReach # {}
                 THEN /\ start' - 1 \in PeriodsInReach
                      /\ \A j \in PeriodsInReach : j <= start' - 1
                      /\ chunk[Len(chunk)] = "."
                 ELSE /\ start' = start + chunkSize
                      /\ Len(chunk) = chunkSize
      ]_vars

\* C22 witness: a chunk was cut after a '.' standing at the candidate end
\* itself, and a later chunk was cut at the hard boundary.
C22_Witness ==
    /\ Len(chunks) >= 3
    /\ Len(chunks[1]) = chunkSize + 1
    /\ chunks[1][chunkSize + 1] = "."
    /\ Len(chunks[2]) = chunkSize
    /\ \A k \in 1..chunkSize : chunks[2][k] # "."

\* C23 (Spec): no chunk index of a job is sent to the provider twice; a job
\* with a failed call has no pending call and has ended; ffmpeg is spawned
\* at most once and the splitting status is written at most once; and once
\* a job has written its error, nothing about it changes any more.
C23_NoRetry ==
    [][\A h \in Handlers :
          LET s  == hs[h]
              s2 == hs'[h]
          IN  /\ \A j \in 1..Len(s2.calls) : \A k \in 1..Len(s2.calls) :
                    s2.calls[j].chunk = s2.calls[k].chunk => j = k
              /\ (\E k \in 1..Len(s2.calls) : s2.calls[k].outcome \in {"nonOk", "throws"})
                 => s2.pc = "done" /\ JobFailed(s2)
              /\ s2.spawns <= 1
              /\ Cardinality({k \in 1..Len(s2.events) :
                    s2.events[k] = StatusEvent("Splitting text into chunks...", 0, 0)}) <= 1
              /\ JobFailed(s) => s2 = s
      ]_vars

\* C23 witness: the call for the second chunk of a job threw, the job has
\* ended with two calls made, and the other stream request went on since.
C23_Witness ==
    \E h \in Handlers : \E g \in Handlers :
        /\ JobFailed(hs[h])
        /\ Len(hs[h].calls) = 2
        /\ hs[h].calls[2].outcome = "throws"
        /\ g > h
        /\ hs[g].pc = "done"

\* C24 (SpecAlone): every job in the registry and every claimed job has a
\* non-empty text; a claimed job has at least one chunk and has issued at
\* least one provider call; and the manifest ffmpeg is given lists at least
\* one segment file.
C24_AtLeastOneChunk ==
    /\ \A q \in DOMAIN requests : requests[q].text # <<>>
    /\ \A h \in Handlers :
          hs[h].claimed =>
             /\ hs[h].text # <<>>
             /\ Len(hs[h].chunks) >= 1
             /\ Len(hs[h].calls) >= 1
             /\ hs[h].spawns >= 1 => Len(hs[h].tempFiles) >= 1
    /\ FileListPath \in DOMAIN fs => Len(fs[FileListPath].data) >= 1

\* C24 witness: ffmpeg was spawned for a job of one chunk after a
\* submission with an empty text had been rejected.
C24_Witness ==
    /\ submitResp.status = 400
    /\ submitResp.body.text = <<>>
    /\ hs[1].spawns = 1
    /\ Len(hs[1].chunks) = 1
    /\ FileListPath \in DOMAIN fs

\* the requestIds that a stream request has claimed
ClaimedIds == {hs[h].requestId : h \in {g \in Handlers : hs[g].claimed}}

C26_CallCarriesModelAndVoice ==
    \A h \in Handlers :
        (/\ hs[h].claimed
         /\ submitResp.status = 200
         /\ hs[h].requestId = submitResp.requestId)
        => \A k \in 1..Len(hs[h].calls) :
              LET c == hs[h].calls[k]
                  b == submitResp.body
              IN  /\ c.input = hs[h].chunks[c.chunk + 1]
                  /\ c.voice = IF b.voice = "" THEN "alloy" ELSE b.voice
                  /\ c.model = IF b.model = "" THEN "tts-1" ELSE b.model

\* the models that take free-form style directives: the client offers the
\* instructions field for gpt-4o-mini-tts only (src/unnamed/part_000 170-178)
SupportsStyle(model) == model = "gpt-4o-mini-tts"

\* the style instructions a provider call carries; "" when it carries none
CallInstructions(c) == IF "instructions" \in DOMAIN c THEN c.instructions ELSE ""

\* C27 (SpecAlone), the claim as stated: every provider call of the job
\* that was submitted last carries the style instructions of the request
\* body when the body's model takes style directives, and none otherwise.
C27_StyleInstructionsForwarded ==
    \A h \in Handlers :
        (/\ hs[h].claimed
         /\ submitResp.status = 200
         /\ hs[h].requestId = submitResp.requestId)
        => \A k \in 1..Len(hs[h].calls) :
              CallInstructions(hs[h].calls[k]) =
                 IF SupportsStyle(submitResp.body.model)
                 THEN submitResp.body.instructions
                 ELSE ""

\* a stream request whose job is in progress, and the temporary paths its
\* job has written so far
InProgress(h) == hs[h].claimed /\ hs[h].pc # "done"
PathsOf(h) ==
    {hs[h].tempFiles[k] : k \in 1..Len(hs[h].tempFiles)}
    \cup (IF hs[h].spawns >= 1 THEN {FileListPath, hs[h].concatenatedPath} ELSE {})

\* C28 (Spec), the claim as stated: two jobs that are in progress at the
\* same time have no temporary path in common.
C28_TempPathsDisjoint ==
    \A g \in Handlers : \A h \in Handlers :
        (g # h /\ InProgress(g) /\ InProgress(h)) => PathsOf(g) \cap PathsOf(h) = {}

\* a step in which a submission was accepted
Accepted == nextId' = nextId + 1

C30_CleanupBeforeResult ==
    [][(JobDone(hs'[1]) /\ ~JobDone(hs[1])) =>
          LET s == hs[1]
              j == CHOOSE k \in Positions(hs'[1].events, {"result"}) : TRUE
          IN  /\ s.pc = "exited"
              /\ s.exitCode = 0
              /\ s.concatenatedPath \in DOMAIN fs
              /\ FileListPath \in DOMAIN fs
              /\ \A k \in 1..Len(s.tempFiles) : s.tempFiles[k] \in DOMAIN fs
              /\ hs'[1].events[j].audio = fs[s.concatenatedPath].data
              /\ s.concatenatedPath \notin DOMAIN fs'
              /\ FileListPath \notin DOMAIN fs'
              /\ \A k \in 1..Len(s.tempFiles) : s.tempFiles[k] \notin DOMAIN fs'
              /\ \A p \in DOMAIN fs' : fs'[p].by # 1
      ]_vars

\* C30 witness: a job of two chunks running alone has written its result
\* and the temporary directory is empty.
C30_Witness ==
    /\ JobDone(hs[1])
    /\ Len(hs[1].chunks) = 2
    /\ hs[1].exitCode = 0
    /\ fs = <<>>

\* C31 (SpecDisconnect): after the client of a running job disconnected the
\* job goes on: while it has not ended it can take its next step; it ends
\* only by writing its own result or error; the calls issued after the
\* disconnect continue the chunk order; a result is written only after a
\* call for every chunk and one ffmpeg run; and when the result is written
\* no file of the job is left.
C31_DisconnectDoesNotCancel ==
    \A h \in Handlers :
        hs[h].closedAt > 0 =>
            LET s == hs[h]
            IN  /\ s.pc # "done" => ENABLED HandlerStep(h)
                /\ s.pc = "done" => (JobDone(s) \/ JobFailed(s))
                /\ \A k \in 1..Len(s.calls) : s.calls[k].chunk = k - 1
                /\ JobDone(s) =>
                      /\ Len(s.calls) = Len(s.chunks)
                      /\ s.spawns = 1
                      /\ \A p \in DOMAIN fs : fs[p].by # h
                /\ (s.pc = "done" /\ ~(\E k \in 1..Len(s.calls) :
                                          s.calls[k].outcome \in {"nonOk", "throws"}))
                   => s.spawns = 1

\* C31 witness: the client disconnected during the first of three provider
\* calls, and the job went on to write its result and remove its files.
C31_Witness ==
    /\ hs[1].closedAt = 2
    /\ Len(hs[1].chunks) = 3
    /\ Len(hs[1].calls) = 3
    /\ JobDone(hs[1])
    /\ fs = <<>>

\* C32 (SplitSpec), the claim as stated: on every text and chunk size the
\* legacy for-loop splitter gives the chunks that the while loop of the
\* stream endpoint gives, and they concatenate to the text.
C32_LegacySplitsAlike ==
    spc = "done" =>
        /\ SplitLegacy(text, chunkSize) = chunks
        /\ Concat(SplitLegacy(text, chunkSize)) = text

\* the provider calls k of the stream request s and of the POST
\* /generate-audio request g had the same outcome, for every k up to n
SameOutcomes(s, g, n) ==
    \A k \in 1..n : s.calls[k].outcome = g.calls[k].outcome

\* the chunk numbers of the segments that an audio is made of, in order
Segments(audio) == [k \in 1..Len(audio) |-> audio[k].chunk]

C34_ClientClosesOnTerminalEvents ==
    /\ client.opened <= 1
    /\ client.opened = 1 =>
          /\ submitResp.status = 200
          /\ submitResp.requestId # NoId
          /\ client.requestId = submitResp.requestId
    /\ \A j \in 1..Len(client.log) :
          LET entry == client.log[j]
          IN  /\ entry.kind \in {"error", "result", "transport"} => entry.closed
              /\ entry.kind = "status" => ~entry.closed
              /\ entry.closed => j = Len(client.log) /\ client.pc = "closed"

====
